---- MODULE Spec2Model ----
(***************************************************************************)
(* gcloud_ping: per-region latency history, winsorized mean and the        *)
(* fan-out / join / report loop of main(), modelled from                   *)
(* src/gcloud_ping.py.                                                     *)
(*                                                                         *)
(* Times are integers in nanoseconds, as perf_counter_ns() returns them.   *)
(* A winsorize limit is the numerator of a fraction over LIMIT_SCALE       *)
(* (5 is 0.05, 100 is 1.0); int(limit * n) is (limit * n) \div LIMIT_SCALE.*)
(* For the limits used here (0, 0.05, 0.10, 0.25, 0.5, 0.75, 1) the        *)
(* floating-point product truncates to that same integer.                  *)
(***************************************************************************)
EXTENDS Integers, Sequences, FiniteSets

VARIABLES
    args,             \* parse_args(): [c, ping_count, sort, regions, list], c the -c
                      \* option as given
    net,              \* the network: [rtts, failures] a probe may meet
    regions,          \* main's list of Region objects (their ids), in list order
    measurements,     \* Region._measurements, per region
    average_rtt_ns,   \* Region._average_rtt_ns, per region: None or Some(ns)
    futures,          \* the future of the region's task of this cycle
    pc,               \* position of the main thread
    i,                \* index of the list comprehension / for loop of main
    count,            \* main's count
    stderr,           \* diagnostics printed by ping: set of <<region, exception>>
    stdout,           \* last row printed per region: None or Some(<<cur, avg, count>>)
    obs,              \* history counters: fan-outs, reports, sleeps, probes per region
    call,             \* a direct call of winsorize: [l, lower_limit, upper_limit, ret,
                      \* again], again the result of a second call on ret
    proc              \* the process: [fetch, directory, diagnostics, listed, header,
                      \* exit_status]

vars == <<args, net, regions, measurements, average_rtt_ns, futures, pc, i,
          count, stderr, stdout, obs, call, proc>>

sched_vars == <<args, net, regions, measurements, average_rtt_ns, futures, pc, i,
                count, stderr, stdout, obs, proc>>

----------------------------------------------------------------------------
(* Bounds of the model *)

\* most cycles a run of the scheduler is followed for
MaxCycles == 5

\* most cycles of the runs whose progress is checked under fairness
MaxFairCycles == 3

\* cycle limit of the runs that begin with the directory fetch
MaxStartCycles == 2

\* cycles of the single-region runs that exercise the statistics
MaxSamples == 11

\* longest list of the calls of winsorize with the program's own limits
MaxTail == 20

\* longest list handed to winsorize directly
MaxLen == 4

(* Program constants *)

NS_PER_MS == 1000000

DEFAULT_PING_COUNT == 64

LIMIT_SCALE == 100

WINSORIZED_MEAN_LOWER_LIMIT == 5

WINSORIZED_MEAN_UPPER_LIMIT == 10

----------------------------------------------------------------------------
(* Values *)

None == <<>>

Some(v) == <<v>>

Regions == {"r1", "r2"}

\* the exception a failed probe raises inside ping's try block
Raised(kind) ==
    CASE kind = "status"  -> "ValueError"
      [] kind = "http"    -> "HTTPException"
      [] kind = "oserror" -> "OSError"
      [] kind = "timeout" -> "TimeoutError"

FailureKinds == {"status", "http", "oserror", "timeout"}

RECURSIVE Sum(_)
Sum(s) == IF s = <<>> THEN 0 ELSE Head(s) + Sum(Tail(s))

----------------------------------------------------------------------------
(* winsorize *)

\* sorted(range(n), key=l.__getitem__): the stable ascending order of the indexes
SortedIdx(l) ==
    [k \in 1..Len(l) |->
        CHOOSE j \in 1..Len(l) :
            Cardinality({m \in 1..Len(l) :
                            l[m] < l[j] \/ (l[m] = l[j] /\ m < j)}) = k - 1]

\* limit * n rounded to the nearest integer, not truncated
IntMul_rounded(limit, n) == (limit * n + LIMIT_SCALE \div 2) \div LIMIT_SCALE

\* int(limit * n)
IntMul(limit, n) == (limit * n) \div LIMIT_SCALE

\* winsorize returning the clamped values in sorted order, not in the input's
winsorize_sorted_output(l, lower_limit, upper_limit) ==
    LET n == Len(l)
        idx == SortedIdx(l)
        lower_index == IntMul(lower_limit, n)
        l1 == IF lower_index > 0 /\ lower_index < n
              THEN LET lower_val == l[idx[lower_index + 1]]
                   IN  [j \in 1..n |->
                          IF \E k \in 1..lower_index : idx[k] = j
                          THEN lower_val ELSE l[j]]
              ELSE l
        upper_index == n - IntMul(upper_limit, n)
        l2 == IF upper_index > 0 /\ upper_index < n
              THEN LET upper_val == l1[idx[upper_index]]
                   IN  [j \in 1..n |->
                          IF \E k \in (upper_index + 1)..n : idx[k] = j
                          THEN upper_val ELSE l1[j]]
              ELSE l1
    IN  IF n = 0 THEN l ELSE [k \in 1..n |-> l2[idx[k]]]

\* winsorize reading lower_val at l_copy[lower_index], without the sorted indexes
winsorize_unsorted_lower_val(l, lower_limit, upper_limit) ==
    LET n == Len(l)
        idx == SortedIdx(l)
        lower_index == IntMul(lower_limit, n)
        l1 == IF lower_index > 0 /\ lower_index < n
              THEN LET lower_val == l[lower_index + 1]
                   IN  [j \in 1..n |->
                          IF \E k \in 1..lower_index : idx[k] = j
                          THEN lower_val ELSE l[j]]
              ELSE l
        upper_index == n - IntMul(upper_limit, n)
        l2 == IF upper_index > 0 /\ upper_index < n
              THEN LET upper_val == l1[idx[upper_index]]
                   IN  [j \in 1..n |->
                          IF \E k \in (upper_index + 1)..n : idx[k] = j
                          THEN upper_val ELSE l1[j]]
              ELSE l1
    IN  IF n = 0 THEN l ELSE l2

\* trimming instead of winsorizing: the tails are dropped, not replaced
winsorize_trimmed(l, lower_limit, upper_limit) ==
    LET n == Len(l)
        idx == SortedIdx(l)
        lower_index == IntMul(lower_limit, n)
        upper_index == n - IntMul(upper_limit, n)
    IN  IF n = 0 \/ upper_index <= lower_index THEN <<>>
        ELSE [k \in 1..(upper_index - lower_index) |-> l[idx[lower_index + k]]]

\* winsorize taking upper_val one rank too high, at idx[upper_index]
winsorize_upper_off_by_one(l, lower_limit, upper_limit) ==
    LET n == Len(l)
        idx == SortedIdx(l)
        lower_index == IntMul(lower_limit, n)
        l1 == IF lower_index > 0 /\ lower_index < n
              THEN LET lower_val == l[idx[lower_index + 1]]
                   IN  [j \in 1..n |->
                          IF \E k \in 1..lower_index : idx[k] = j
                          THEN lower_val ELSE l[j]]
              ELSE l
        upper_index == n - IntMul(upper_limit, n)
        l2 == IF upper_index > 0 /\ upper_index < n
              THEN LET upper_val == l1[idx[upper_index + 1]]
                   IN  [j \in 1..n |->
                          IF \E k \in (upper_index + 1)..n : idx[k] = j
                          THEN upper_val ELSE l1[j]]
              ELSE l1
    IN  IF n = 0 THEN l ELSE l2

winsorize(l, lower_limit, upper_limit) ==
    LET n == Len(l)
        idx == SortedIdx(l)
        lower_index == IntMul(lower_limit, n)
        l1 == IF lower_index > 0 /\ lower_index < n
              THEN LET lower_val == l[idx[lower_index + 1]]
                   IN  [j \in 1..n |->
                          IF \E k \in 1..lower_index : idx[k] = j
                          THEN lower_val ELSE l[j]]
              ELSE l
        upper_index == n - IntMul(upper_limit, n)
        l2 == IF upper_index > 0 /\ upper_index < n
              THEN LET upper_val == l1[idx[upper_index]]
                   IN  [j \in 1..n |->
                          IF \E k \in (upper_index + 1)..n : idx[k] = j
                          THEN upper_val ELSE l1[j]]
              ELSE l1
    IN  IF n = 0 THEN l ELSE l2

\* the caller's list after winsorize(l, ...) has returned, were the function to
\* work on l itself (l_copy = l)
winsorize_arg_aliased(l, lower_limit, upper_limit) ==
    winsorize(l, lower_limit, upper_limit)

\* the caller's list after winsorize(l, ...) has returned: line 19 copies it
\* and every assignment goes to the copy
winsorize_arg(l, lower_limit, upper_limit) == l

----------------------------------------------------------------------------
(* Region *)

\* average_rtt_ms answering 0 when there is no average yet
average_rtt_ms_zero(r) ==
    IF average_rtt_ns[r] # None THEN average_rtt_ns[r][1] \div NS_PER_MS ELSE 0

average_rtt_ms(r) ==
    IF average_rtt_ns[r] # None THEN average_rtt_ns[r][1] \div NS_PER_MS ELSE -1

last_rtt_ms(r) ==
    IF measurements[r] # <<>>
    THEN measurements[r][Len(measurements[r])] \div NS_PER_MS
    ELSE -1

ping_count(r) == Len(measurements[r])

\* the mean over the samples left between the tails, not over the full length
MeanNs_reduced_length(m) ==
    LET winsorized_values == winsorize(m, WINSORIZED_MEAN_LOWER_LIMIT,
                                          WINSORIZED_MEAN_UPPER_LIMIT)
    IN  Sum(winsorized_values) \div
            (Len(m) - IntMul(WINSORIZED_MEAN_LOWER_LIMIT, Len(m))
                    - IntMul(WINSORIZED_MEAN_UPPER_LIMIT, Len(m)))

\* the mean of the history as it is, not winsorized
MeanNs_plain(m) == Sum(m) \div Len(m)

\* lines 77-80: the mean of the winsorized history, over its full length
MeanNs(m) ==
    LET winsorized_values == winsorize(m, WINSORIZED_MEAN_LOWER_LIMIT,
                                          WINSORIZED_MEAN_UPPER_LIMIT)
    IN  Sum(winsorized_values) \div Len(winsorized_values)

\* except (http.client.HTTPException, ValueError)
Caught(exception) == exception \in {"HTTPException", "ValueError"}

NoFuture == [state |-> "none", outcome |-> "none", result |-> None, exception |-> "none"]

\* the worker thread takes the task off the queue: ping runs up to getresponse()
Start(r) ==
    /\ futures[r].state = "queued"
    /\ futures' = [futures EXCEPT ![r].state = "running"]
    /\ UNCHANGED <<args, net, regions, measurements, average_rtt_ns, pc, i, count,
                   stderr, stdout, obs, call, proc>>

\* the response is read with status 200: lines 74-81
PingOk(r, interval_ns) ==
    LET m == Append(measurements[r], interval_ns)
    IN  /\ measurements' = [measurements EXCEPT ![r] =
                               winsorize_arg(m, WINSORIZED_MEAN_LOWER_LIMIT,
                                                WINSORIZED_MEAN_UPPER_LIMIT)]
        /\ average_rtt_ns' = [average_rtt_ns EXCEPT ![r] = Some(MeanNs(m))]
        /\ futures' = [futures EXCEPT ![r] =
                          [state |-> "finished", outcome |-> "ok",
                           result |-> Some(m[Len(m)] \div NS_PER_MS),
                           exception |-> "none"]]
        /\ obs' = [obs EXCEPT !.succeeded[r] = @ + 1]
        /\ UNCHANGED stderr

\* the probe fails: lines 72-73 or an exception of request/getresponse/read,
\* then lines 82-84 when the except clause matches
PingFail(r, kind) ==
    /\ IF Caught(Raised(kind))
       THEN /\ stderr' = stderr \cup {<<r, Raised(kind)>>}
            /\ futures' = [futures EXCEPT ![r] =
                              [state |-> "finished", outcome |-> kind,
                               result |-> None, exception |-> "none"]]
       ELSE /\ stderr' = stderr
            /\ futures' = [futures EXCEPT ![r] =
                              [state |-> "finished", outcome |-> kind,
                               result |-> None, exception |-> Raised(kind)]]
    /\ obs' = [obs EXCEPT !.failed[r] = @ + 1]
    /\ UNCHANGED <<measurements, average_rtt_ns>>

ping(r) ==
    /\ futures[r].state = "running"
    /\ \/ \E interval_ns \in net.rtts : PingOk(r, interval_ns)
       \/ \E kind \in net.failures : PingFail(r, kind)
    /\ UNCHANGED <<args, net, regions, pc, i, count, stdout, call, proc>>

----------------------------------------------------------------------------
(* main *)

\* add_argument("-c", "--ping-count", type=int, default=64)
parse_args(c) == IF c = None THEN DEFAULT_PING_COUNT ELSE c[1]

\* a loop test that takes a ping count of 0 as no limit
LoopTest_zero_is_forever == args.ping_count = 0 \/ count < args.ping_count

\* while count < args.ping_count
LoopTest == count < args.ping_count

While ==
    /\ pc = "while"
    /\ IF LoopTest
       THEN count < obs.horizon /\ pc' = "submit" /\ i' = 1
       ELSE pc' = "exit_with" /\ i' = i
    /\ UNCHANGED <<args, net, regions, measurements, average_rtt_ns, futures, count,
                   stderr, stdout, obs, call, proc>>

\* futures = [executor.submit(region.ping) for region in regions], one element
Submit ==
    /\ pc = "submit"
    /\ futures' = [futures EXCEPT ![regions[i]] =
                      [NoFuture EXCEPT !.state = "queued"]]
    /\ IF i < Len(regions)
       THEN i' = i + 1 /\ pc' = pc
            /\ obs' = [obs EXCEPT !.launched[regions[i]] = @ + 1]
       ELSE i' = 1 /\ pc' = "wait"
            /\ obs' = [obs EXCEPT !.launched[regions[i]] = @ + 1,
                                  !.fanouts = @ + 1]
    /\ UNCHANGED <<args, net, regions, measurements, average_rtt_ns, count,
                   stderr, stdout, call, proc>>

\* a wait that ends only when every task has returned without raising, as one
\* calling result() on each future would
AllCompleted_without_exception ==
    \A r \in Regions :
        \/ futures[r].state = "none"
        \/ futures[r].state = "finished" /\ futures[r].exception = "none"

\* a wait that returns with the first completed future
FirstCompleted == \E r \in Regions : futures[r].state \in {"none", "finished"}

\* concurrent.futures.wait(futures, return_when=ALL_COMPLETED)
AllCompleted == \A r \in Regions : futures[r].state \in {"none", "finished"}

\* regions.sort(key=lambda r: r.average_rtt_ms): stable, ascending
SortByAverage(rs) ==
    LET keys == [j \in 1..Len(rs) |-> average_rtt_ms(rs[j])]
        idx == SortedIdx(keys)
    IN  [k \in 1..Len(rs) |-> rs[idx[k]]]

\* a wait that returns at once, whatever the tasks' state (timeout=0)
Wait_timeout ==
    /\ pc = "wait"
    /\ regions' = IF args.sort THEN SortByAverage(regions) ELSE regions
    /\ pc' = "print"
    /\ i' = 1
    /\ UNCHANGED <<args, net, measurements, average_rtt_ns, futures, count,
                   stderr, stdout, obs, call, proc>>

\* lines 148-150
Wait ==
    /\ pc = "wait"
    /\ AllCompleted
    /\ regions' = IF args.sort THEN SortByAverage(regions) ELSE regions
    /\ pc' = "print"
    /\ i' = 1
    /\ UNCHANGED <<args, net, measurements, average_rtt_ns, futures, count,
                   stderr, stdout, obs, call, proc>>

\* sleeping after every cycle, the last one too
SleepTest_always(c) == TRUE

\* if count < args.ping_count: sleep(args.ping_interval)
SleepTest(c) == c < args.ping_count

\* lines 151-158: one row of the for loop; after the last row, count += 1
Report ==
    /\ pc = "print"
    /\ stdout' = [stdout EXCEPT ![regions[i]] =
                     Some(<<last_rtt_ms(regions[i]), average_rtt_ms(regions[i]),
                            ping_count(regions[i])>>)]
    /\ IF i < Len(regions)
       THEN i' = i + 1 /\ pc' = pc /\ count' = count /\ obs' = obs
       ELSE /\ i' = 1
            /\ count' = count + 1
            /\ IF SleepTest(count + 1)
               THEN pc' = "sleep"
                    /\ obs' = [obs EXCEPT !.reports = @ + 1, !.sleeps = @ + 1]
               ELSE pc' = "while"
                    /\ obs' = [obs EXCEPT !.reports = @ + 1]
    /\ UNCHANGED <<args, net, regions, measurements, average_rtt_ns, futures,
                   stderr, call, proc>>

\* sleep(args.ping_interval) returns
Sleep ==
    /\ pc = "sleep"
    /\ pc' = "while"
    /\ UNCHANGED <<args, net, regions, measurements, average_rtt_ns, futures, i,
                   count, stderr, stdout, obs, call, proc>>

\* KeyboardInterrupt is raised in the main thread inside the try block
Interrupt ==
    /\ pc \in {"while", "submit", "wait", "print", "sleep", "exit_with"}
    /\ pc' = "exit_with_interrupt"
    /\ UNCHANGED <<args, net, regions, measurements, average_rtt_ns, futures, i,
                   count, stderr, stdout, obs, call, proc>>

\* leaving the with block without waiting for the workers (shutdown(wait=False))
Shutdown_without_join ==
    /\ pc \in {"exit_with", "exit_with_interrupt"}
    /\ pc' = IF pc = "exit_with" THEN "done" ELSE "stopped"
    /\ proc' = [proc EXCEPT !.exit_status = Some(0),
                            !.diagnostics = IF pc = "exit_with" THEN @ ELSE @ + 1]
    /\ UNCHANGED <<args, net, regions, measurements, average_rtt_ns, futures, i,
                   count, stderr, stdout, obs, call>>

\* leaving the with block: executor.shutdown(wait=True) joins the workers, which
\* first run every task still queued; then main returns, or the except clause
\* prints its line to stderr and main returns: exit status 0 either way
Shutdown ==
    /\ pc \in {"exit_with", "exit_with_interrupt"}
    /\ AllCompleted
    /\ pc' = IF pc = "exit_with" THEN "done" ELSE "stopped"
    /\ proc' = [proc EXCEPT !.exit_status = Some(0),
                            !.diagnostics = IF pc = "exit_with" THEN @ ELSE @ + 1]
    /\ UNCHANGED <<args, net, regions, measurements, average_rtt_ns, futures, i,
                   count, stderr, stdout, obs, call>>

----------------------------------------------------------------------------
(* main: the directory fetch and the selection of the regions *)

\* the exception a failed directory fetch raises inside the try block
FetchRaised(kind) ==
    CASE kind = "status"  -> "ValueError"
      [] kind = "http"    -> "HTTPException"
      [] kind = "json"    -> "JSONDecodeError"
      [] kind = "oserror" -> "OSError"
      [] kind = "timeout" -> "TimeoutError"

FetchFailureKinds == {"status", "http", "json", "oserror", "timeout"}

\* except (http.client.HTTPException, json.JSONDecodeError, ValueError)
FetchCaught(exception) ==
    exception \in {"HTTPException", "JSONDecodeError", "ValueError"}

\* lines 104-113: the directory is fetched and parsed, or the failure is printed
\* and sys.exit(1) is called; an exception the except clause does not name ends
\* the process with a traceback on stderr and exit status 1
Fetch ==
    /\ pc = "fetch"
    /\ \E o \in net.fetch :
          IF o.kind = "ok"
          THEN /\ proc' = [proc EXCEPT !.fetch = "ok", !.directory = o.directory]
               /\ pc' = "select"
          ELSE /\ proc' = [proc EXCEPT !.fetch = o.kind, !.diagnostics = @ + 1,
                                       !.exit_status = Some(1)]
               /\ pc' = IF FetchCaught(FetchRaised(o.kind)) THEN "exited" ELSE "crashed"
    /\ UNCHANGED <<args, net, regions, measurements, average_rtt_ns, futures, i,
                   count, stderr, stdout, obs, call>>

\* [r for r in res_obj.values() if not args.regions or r["Region"] in args.regions]
RECURSIVE Selected(_, _)
Selected(directory, wanted) ==
    IF directory = <<>> THEN <<>>
    ELSE IF wanted = {} \/ Head(directory) \in wanted
         THEN <<Head(directory)>> \o Selected(Tail(directory), wanted)
         ELSE Selected(Tail(directory), wanted)

\* a selection that prints the header before it looks at the selected list
Select_header_first ==
    /\ pc = "select"
    /\ LET region_data_list == Selected(proc.directory, args.regions)
       IN  IF region_data_list = <<>>
           THEN /\ proc' = [proc EXCEPT !.diagnostics = @ + 1, !.exit_status = Some(1),
                                        !.header = TRUE]
                /\ pc' = "exited"
                /\ regions' = regions
           ELSE IF args.list
           THEN /\ proc' = [proc EXCEPT !.listed = TRUE, !.exit_status = Some(0),
                                        !.header = TRUE]
                /\ pc' = "exited"
                /\ regions' = regions
           ELSE /\ proc' = [proc EXCEPT !.header = TRUE]
                /\ pc' = "while"
                /\ regions' = region_data_list
    /\ UNCHANGED <<args, net, measurements, average_rtt_ns, futures, i, count,
                   stderr, stdout, obs, call>>

\* lines 116-140: the empty selection is fatal, --list prints the regions and
\* exits, otherwise the Region objects are built and the header is printed
Select ==
    /\ pc = "select"
    /\ LET region_data_list == Selected(proc.directory, args.regions)
       IN  IF region_data_list = <<>>
           THEN /\ proc' = [proc EXCEPT !.diagnostics = @ + 1, !.exit_status = Some(1)]
                /\ pc' = "exited"
                /\ regions' = regions
           ELSE IF args.list
           THEN /\ proc' = [proc EXCEPT !.listed = TRUE, !.exit_status = Some(0)]
                /\ pc' = "exited"
                /\ regions' = regions
           ELSE /\ proc' = [proc EXCEPT !.header = TRUE]
                /\ pc' = "while"
                /\ regions' = region_data_list
    /\ UNCHANGED <<args, net, measurements, average_rtt_ns, futures, i, count,
                   stderr, stdout, obs, call>>

----------------------------------------------------------------------------
(* Specifications *)

NoCall == [l |-> <<>>, lower_limit |-> 0, upper_limit |-> 0, ret |-> None,
           again |-> None]

\* the process once the directory is fetched, the regions are selected and the
\* header is printed (lines 98-140)
Started(directory) ==
    [fetch |-> "ok", directory |-> directory, diagnostics |-> 0, listed |-> FALSE,
     header |-> TRUE, exit_status |-> None]

\* the state after main has built the Region objects and printed the header;
\* a run is followed for at most horizon cycles
InitMain(cs, sorts, rs, rtts, failures, horizon) ==
    /\ args \in {[c |-> c, ping_count |-> parse_args(c), sort |-> s,
                    regions |-> {}, list |-> FALSE] :
                    c \in cs, s \in sorts}
    /\ proc = Started(rs)
    /\ net = [rtts |-> rtts, failures |-> failures]
    /\ regions = rs
    /\ measurements = [r \in Regions |-> <<>>]
    /\ average_rtt_ns = [r \in Regions |-> None]
    /\ futures = [r \in Regions |-> NoFuture]
    /\ pc = "while"
    /\ i = 1
    /\ count = 0
    /\ stderr = {}
    /\ stdout = [r \in Regions |-> None]
    /\ obs = [horizon |-> horizon, fanouts |-> 0, reports |-> 0, sleeps |-> 0,
              launched |-> [r \in Regions |-> 0],
              succeeded |-> [r \in Regions |-> 0],
              failed |-> [r \in Regions |-> 0]]

Init ==
    /\ InitMain({None} \cup {Some(c) : c \in 0..MaxCycles}, BOOLEAN,
                <<"r1", "r2">>, {50 * NS_PER_MS}, FailureKinds, MaxCycles)
    /\ call = NoCall

Worker == \E r \in Regions : Start(r) \/ ping(r)

Main == While \/ Submit \/ Wait \/ Report \/ Sleep \/ Shutdown

Next == Main \/ Worker \/ Interrupt

Spec == Init /\ [][Next]_vars

\* the main thread and the pool's workers are threads the system keeps running,
\* and a probe ends within the connection's timeout; an interrupt may never come
Fairness ==
    /\ WF_vars(Main)
    /\ \A r \in Regions : WF_vars(Start(r)) /\ WF_vars(ping(r))

FairSpec == Spec /\ Fairness

\* runs with a cycle limit of 1..MaxFairCycles, under the same fairness
InitRuns ==
    /\ InitMain({Some(c) : c \in 1..MaxFairCycles}, BOOLEAN, <<"r1", "r2">>,
                {50 * NS_PER_MS}, FailureKinds, MaxFairCycles)
    /\ call = NoCall

FairRuns == InitRuns /\ [][Next]_vars /\ Fairness

\* main from its first line: the directory may come as one of three, or not at
\* all; the regions asked for may be none (all), r1 or r2; --list may be given
Directories == {<<>>, <<"r1">>, <<"r1", "r2">>}

InitStartup ==
    /\ args \in {[c |-> Some(MaxStartCycles), ping_count |-> parse_args(Some(MaxStartCycles)),
                    sort |-> FALSE, regions |-> w, list |-> l] :
                    w \in {{}, {"r1"}, {"r2"}}, l \in BOOLEAN}
    /\ net = [rtts |-> {50 * NS_PER_MS}, failures |-> FailureKinds,
              fetch |-> {[kind |-> "ok", directory |-> d] : d \in Directories}
                          \cup {[kind |-> k, directory |-> <<>>] : k \in FetchFailureKinds}]
    /\ regions = <<>>
    /\ measurements = [r \in Regions |-> <<>>]
    /\ average_rtt_ns = [r \in Regions |-> None]
    /\ futures = [r \in Regions |-> NoFuture]
    /\ pc = "fetch"
    /\ i = 1
    /\ count = 0
    /\ stderr = {}
    /\ stdout = [r \in Regions |-> None]
    /\ obs = [horizon |-> MaxStartCycles, fanouts |-> 0, reports |-> 0, sleeps |-> 0,
              launched |-> [r \in Regions |-> 0],
              succeeded |-> [r \in Regions |-> 0],
              failed |-> [r \in Regions |-> 0]]
    /\ proc = [fetch |-> "none", directory |-> <<>>, diagnostics |-> 0,
               listed |-> FALSE, header |-> FALSE, exit_status |-> None]
    /\ call = NoCall

SpecStartup == InitStartup /\ [][Fetch \/ Select \/ Next]_vars

\* one region probed MaxSamples times, with latencies that differ
InitStatsMain ==
    InitMain({Some(MaxSamples)}, {FALSE}, <<"r1">>,
             {(3 * NS_PER_MS) \div 2, 50 * NS_PER_MS}, {"status", "timeout"},
             MaxSamples)

InitStats == InitStatsMain /\ call = NoCall

SpecStats == InitStats /\ [][Next]_vars

\* winsorize called on its own
Values == {10, 11, 12, 100}

Limits == {0, 5, 10, 25, 50, 75, 100}

SeqsUpTo(S, n) == UNION {[1..k -> S] : k \in 0..n}

\* a main thread that is followed for no cycle
InitIdle == InitMain({Some(1)}, {FALSE}, <<"r1", "r2">>, {}, {}, 0)

InitCall ==
    /\ InitIdle
    /\ call \in [l : SeqsUpTo(Values, MaxLen), lower_limit : Limits,
                  upper_limit : Limits, ret : {None}, again : {None}]

Call ==
    /\ call.ret = None
    /\ call' = [call EXCEPT !.ret = Some(winsorize(call.l, call.lower_limit,
                                                     call.upper_limit)),
                            !.l = winsorize_arg(call.l, call.lower_limit,
                                                call.upper_limit)]
    /\ UNCHANGED sched_vars

\* winsorize called on what it returned, with the same limits
CallAgain ==
    /\ call.ret # None
    /\ call.again = None
    /\ call' = [call EXCEPT !.again = Some(winsorize(call.ret[1], call.lower_limit,
                                                       call.upper_limit))]
    /\ UNCHANGED sched_vars

SpecCall == InitCall /\ [][Call \/ CallAgain]_vars

\* winsorize called with the limits of Region.ping on lists of up to MaxTail
\* samples: one sample of 1 and one of 9 anywhere among samples of 5
TailLists ==
    UNION {{[k \in 1..n |-> IF k = p THEN 1 ELSE IF k = q THEN 9 ELSE 5] :
               p \in 1..n, q \in 1..n} : n \in 1..MaxTail}

InitTails ==
    /\ InitIdle
    /\ call \in [l : TailLists, lower_limit : {WINSORIZED_MEAN_LOWER_LIMIT},
                  upper_limit : {WINSORIZED_MEAN_UPPER_LIMIT}, ret : {None},
                  again : {None}]

\* winsorize has been called on the empty list, and on its result
Returned == [NoCall EXCEPT !.ret = Some(<<>>), !.again = Some(<<>>)]

\* the statistics of a region, and winsorize on its own
InitMean ==
    \/ InitStatsMain /\ call = Returned
    \/ InitCall
    \/ InitTails

SpecMean == InitMean /\ [][Next \/ Call \/ CallAgain]_vars

----------------------------------------------------------------------------
(* Vocabulary of the properties *)

\* the main thread is between two cycles, or past the last one, uninterrupted
BetweenCycles == pc \in {"while", "sleep", "exit_with", "done"}

Listed == {regions[k] : k \in 1..Len(regions)}

InFlight(r) == futures[r].state \in {"queued", "running"}

\* 0-based rank of position j in the stable ascending order of values
RankOf(values, j) ==
    Cardinality({m \in 1..Len(values) :
                    values[m] < values[j] \/ (values[m] = values[j] /\ m < j)})

ValueAtRank(values, k) ==
    values[CHOOSE j \in 1..Len(values) : RankOf(values, j) = k]

\* the reference algorithm: the lowerCount lowest ranks take the value at rank
\* lowerCount, then the upperCount highest ranks take the value then at rank
\* n - upperCount - 1; the ranks are those of the input
Reference(values, lowerCount, upperCount) ==
    LET n == Len(values)
        lowered == [j \in 1..n |->
                      IF RankOf(values, j) < lowerCount
                      THEN ValueAtRank(values, lowerCount) ELSE values[j]]
        upperRankStart == n - upperCount
        upperValue == lowered[CHOOSE j \in 1..n :
                                 RankOf(values, j) = upperRankStart - 1]
    IN  [j \in 1..n |->
           IF RankOf(values, j) >= upperRankStart THEN upperValue ELSE lowered[j]]

Clamp(x, lo, hi) == IF x < lo THEN lo ELSE IF x > hi THEN hi ELSE x

\* clamp(floor(fraction * n), 0, n - 1)
ClampedCount(fraction, n) == Clamp((fraction * n) \div LIMIT_SCALE, 0, n - 1)

\* floor(fraction * n), and no clamping on that side when it reaches n
GuardedCount(fraction, n) ==
    IF (fraction * n) \div LIMIT_SCALE < n THEN (fraction * n) \div LIMIT_SCALE ELSE 0

----------------------------------------------------------------------------
(* Properties *)

\* C1: after k completed cycles every Endpoint's sample count (ping_count) is
\* exactly k, whatever mix of successful and failed probes occurred.
C1_CountEqualsCycles ==
    BetweenCycles => \A r \in Listed : ping_count(r) = count

\* C2: whatever the failure kind of a probe (non-200 status, transport error,
\* timeout), ping does not raise: its task ends with the failure result None and
\* a diagnostic naming the endpoint and the cause is on the error channel.
C2_FailureNeverRaises ==
    \A r \in Regions :
        (futures[r].state = "finished" /\ futures[r].outcome \in FailureKinds)
            => /\ futures[r].exception = "none"
               /\ futures[r].result = None
               /\ <<r, Raised(futures[r].outcome)>> \in stderr

\* C3: the current latency of an Endpoint after a cycle is the measured
\* milliseconds when that cycle's probe succeeded, -1 when it failed, and -1
\* when no probe has run yet.
C3_CurrentIsLastProbe ==
    BetweenCycles =>
        \A r \in Listed :
            last_rtt_ms(r) =
                IF futures[r].state = "finished" /\ futures[r].outcome = "ok"
                THEN futures[r].result[1]
                ELSE -1

\* C4: an Endpoint with no successful sample so far (no probe run, or every
\* probe failed) has average exactly -1, in every reachable state and in every
\* row printed for it.
C4_NoSuccessAverageIsMinusOne ==
    \A r \in Regions :
        obs.succeeded[r] = 0
            => /\ average_rtt_ms(r) = -1
               /\ stdout[r] # None => stdout[r][1][2] = -1

C4_Witness ==
    \E r \in Listed :
        /\ obs.failed[r] >= 2
        /\ obs.succeeded[r] = 0
        /\ stdout[r] # None
        /\ \E q \in Listed : obs.succeeded[q] >= 1

\* floor(sum(W) / n) in milliseconds, W the reference winsorization, with the
\* fixed tail fractions, of the n samples
ExpectedAverageMs(samples) ==
    LET n == Len(samples)
        W == Reference(samples,
                       ClampedCount(WINSORIZED_MEAN_LOWER_LIMIT, n),
                       ClampedCount(WINSORIZED_MEAN_UPPER_LIMIT, n))
    IN  Sum(W) \div (n * NS_PER_MS)

C5_AverageNow ==
    \A r \in Regions :
        obs.succeeded[r] >= 1
            => /\ Len(measurements[r]) = obs.succeeded[r]
               /\ average_rtt_ms(r) = ExpectedAverageMs(measurements[r])

C5_AverageStable ==
    \A r \in Regions :
        obs.succeeded'[r] = obs.succeeded[r] => average_rtt_ms(r)' = average_rtt_ms(r)

\* C5: an Endpoint with n >= 1 successful samples has average
\* floor(sum(W) / n), W the winsorization (lower 0.05, upper 0.10) of all its
\* successful samples and n their full number; and the average does not change
\* while no new sample arrives, also across cycles whose probe failed.
C5_AverageIsWinsorizedMean == []C5_AverageNow /\ [][C5_AverageStable]_vars

\* ten or more samples with a clamped tail that moves the mean, after a failure
C5_Witness ==
    \E r \in Listed :
        /\ obs.succeeded[r] >= 10
        /\ obs.failed[r] >= 1
        /\ average_rtt_ms(r) # Sum(measurements[r]) \div (Len(measurements[r]) * NS_PER_MS)
        /\ stdout[r] # None /\ stdout[r][1][2] = average_rtt_ms(r)

\* C6: with one Endpoint whose probes all succeeded with the same value v and
\* one whose probes all failed, after k completed cycles the first has
\* count = k, average = v, current = v and the second count = k, average = -1,
\* current = -1.
C6_EndToEnd ==
    \A a, b \in Listed :
        \A v \in {t \div NS_PER_MS : t \in net.rtts} :
            ( /\ BetweenCycles /\ count >= 1
              /\ obs.succeeded[a] = count /\ obs.failed[a] = 0
              /\ \A k \in 1..Len(measurements[a]) : measurements[a][k] = v * NS_PER_MS
              /\ obs.failed[b] = count /\ obs.succeeded[b] = 0 )
            => /\ ping_count(a) = count /\ average_rtt_ms(a) = v /\ last_rtt_ms(a) = v
               /\ ping_count(b) = count /\ average_rtt_ms(b) = -1 /\ last_rtt_ms(b) = -1

\* C7: each cycle launches exactly one probe per Endpoint; the report of cycle
\* k starts only after every probe of cycle k has completed; no probe of cycle
\* k+1 is launched before the report of cycle k has finished; no row is
\* produced while a probe is in flight.
C7_CycleSerialization ==
    /\ \A r \in Listed : obs.launched[r] \in {count, count + 1}
    /\ \A r \in Listed : obs.launched[r] <= obs.reports + 1
    /\ \A r \in Listed :
          obs.succeeded[r] + obs.failed[r] + (IF InFlight(r) THEN 1 ELSE 0)
              = obs.launched[r]
    /\ pc = "print" =>
          /\ obs.reports = count
          /\ \A r \in Listed :
                /\ obs.launched[r] = count + 1
                /\ futures[r].state = "finished"
                /\ ~InFlight(r)
    /\ \A r \in Regions :
          InFlight(r) => pc \in {"submit", "wait", "exit_with_interrupt"}

\* the second row of the second report, after a probe that raised
C7_Witness ==
    /\ pc = "print" /\ i = 2 /\ count = 1
    /\ \E r \in Listed : futures[r].exception # "none"

C8_Counts ==
    args.ping_count > 0 =>
        /\ obs.sleeps = (IF obs.reports < args.ping_count
                         THEN obs.reports ELSE args.ping_count - 1)
        /\ obs.reports <= obs.fanouts /\ obs.fanouts <= args.ping_count
        /\ pc = "done" =>
              /\ count = args.ping_count
              /\ obs.fanouts = args.ping_count
              /\ obs.reports = args.ping_count
              /\ obs.sleeps = args.ping_count - 1

Interrupted == pc \in {"exit_with_interrupt", "stopped"}

\* C8: with a cycle limit N > 0 and no interrupt the scheduler runs exactly N
\* cycles (N fan-outs, N reports) and then terminates cleanly; it sleeps after
\* each of the first N-1 cycles and not after the N-th; and, every probe
\* completing, termination is eventually reached.
C8_RunsExactlyN ==
    /\ []C8_Counts
    /\ (args.ping_count \in 1..MaxCycles) => <>(pc = "done" \/ Interrupted)

C8_Witness ==
    pc = "done" /\ args.ping_count = MaxCycles /\ obs.sleeps = MaxCycles - 1

\* C9 as stated: with the cycle count 0 or not given the scheduler never
\* terminates by reaching a cycle limit.
C9_ZeroOrAbsentRunsForever ==
    (args.c = None \/ args.c = Some(0)) => pc \notin {"exit_with", "done"}

\* C9 as amended: with the cycle count 0 the scheduler starts no cycle and
\* terminates at once; not given, the limit is 64 cycles; in every case the
\* cycles run never exceed the limit.
C9_ZeroRunsNoCycle ==
    /\ args.c = Some(0) =>
          /\ count = 0 /\ obs.fanouts = 0 /\ obs.reports = 0
          /\ \A r \in Regions : obs.launched[r] = 0 /\ stdout[r] = None
          /\ pc \in {"while", "exit_with", "done", "exit_with_interrupt", "stopped"}
    /\ args.c = None => args.ping_count = DEFAULT_PING_COUNT
    /\ count <= args.ping_count /\ obs.fanouts <= args.ping_count

C9_Witness == args.c = Some(0) /\ pc = "done"

\* C10 as stated: for n >= 1 and fractions in [0,1], winsorize returns the
\* reference algorithm's result with lowerCount = clamp(floor(lower*n), 0, n-1)
\* and upperCount = clamp(floor(upper*n), 0, n-1), also for fractions equal to 1.
C10_WinsorizeIsClampedReference ==
    (call.ret # None /\ Len(call.l) >= 1)
        => call.ret[1] = Reference(call.l,
                                   ClampedCount(call.lower_limit, Len(call.l)),
                                   ClampedCount(call.upper_limit, Len(call.l)))

\* C10 as amended: winsorize returns the reference algorithm's result with
\* lowerCount = floor(lower*n) and upperCount = floor(upper*n), a count that
\* reaches n (a fraction of 1) clamping nothing on its side; the output is in
\* original order, and [10, 12, 11, 100] with lower 0, upper 0.25 gives
\* [10, 12, 11, 12].
C10_WinsorizeIsGuardedReference ==
    (call.ret # None /\ Len(call.l) >= 1)
        => /\ call.ret[1] = Reference(call.l,
                                      GuardedCount(call.lower_limit, Len(call.l)),
                                      GuardedCount(call.upper_limit, Len(call.l)))
           /\ (call.l = <<10, 12, 11, 100>> /\ call.lower_limit = 0
                 /\ call.upper_limit = 25) => call.ret[1] = <<10, 12, 11, 12>>

\* a fraction of 1 on the lower side, a clamped upper tail, unsorted input
C10_Witness ==
    /\ call.l = <<100, 10, 12, 11>>
    /\ call.lower_limit = 100 /\ call.upper_limit = 25
    /\ call.ret = Some(<<12, 10, 12, 11>>)

\* C11: for every non-empty input and every pair of fractions in [0,1],
\* winsorize returns a sequence of the input's length; with both fractions 0
\* the output equals the input element for element.
C11_LengthKeptAndZeroIsIdentity ==
    (call.ret # None /\ Len(call.l) >= 1)
        => /\ Len(call.ret[1]) = Len(call.l)
           /\ DOMAIN call.ret[1] = DOMAIN call.l
           /\ (call.lower_limit = 0 /\ call.upper_limit = 0)
                 => \A j \in 1..Len(call.l) : call.ret[1][j] = call.l[j]

\* an unsorted input of the longest length returned as it is with fractions 0
C11_Witness ==
    /\ call.l = <<100, 10, 12, 11>>
    /\ call.lower_limit = 0 /\ call.upper_limit = 0
    /\ call.ret = Some(<<100, 10, 12, 11>>)

\* C12: winsorize is idempotent: for every input and every pair of fractions in
\* [0,1], tails that overlap (lower + upper > 1) included, winsorizing the
\* output again with the same fractions returns the output.
C12_Idempotent ==
    call.again # None => call.again = call.ret

\* a second call after a first one that clamped, with overlapping tails
C12_Witness ==
    /\ call.again # None
    /\ call.lower_limit = 50 /\ call.upper_limit = 75
    /\ call.ret[1] # call.l
    /\ Len(call.l) = 4

\* C13: for every single-element input [v] and every pair of fractions in
\* [0,1], 1 included, winsorize returns [v].
C13_SingleElementUnchanged ==
    (call.ret # None /\ Len(call.l) = 1) => call.ret = Some(<<call.l[1]>>)

C13_Witness ==
    /\ call.l = <<100>>
    /\ call.lower_limit = 100 /\ call.upper_limit = 100
    /\ call.ret = Some(<<100>>)

\* a step that is not a step of b's own task leaves b's history and average alone
C14_OthersUntouched ==
    \A b \in Regions :
        futures'[b] = futures[b]
            => /\ measurements'[b] = measurements[b]
               /\ average_rtt_ns'[b] = average_rtt_ns[b]

\* b's statistics are those of b's own successful probes; and the join returns
\* once every task has ended, however it ended
C14_OwnResults ==
    /\ \A b \in Regions :
          /\ ping_count(b) = obs.succeeded[b]
          /\ \A k \in 1..Len(measurements[b]) : measurements[b][k] \in net.rtts
          /\ obs.succeeded[b] >= 1 =>
                /\ average_rtt_ms(b) = ExpectedAverageMs(measurements[b])
                /\ last_rtt_ms(b) = measurements[b][Len(measurements[b])] \div NS_PER_MS
          /\ obs.succeeded[b] = 0 => average_rtt_ms(b) = -1 /\ last_rtt_ms(b) = -1
    /\ (pc = "wait" /\ \A r \in Listed : futures[r].state = "finished")
          => ENABLED Wait

\* C14: a probe failure of Endpoint A in a cycle, of any kind, one that raises
\* inside its task included, leaves the history, current, average and count of
\* every other Endpoint B as B's own probe results determine them, and the
\* cycle's join still completes: the cycle is reported and the next one starts.
C14_FailureIsolation ==
    /\ []C14_OwnResults
    /\ [][C14_OthersUntouched]_vars
    /\ (pc = "wait") ~> (pc = "print" \/ Interrupted)
    /\ (pc = "wait" /\ count + 1 < args.ping_count /\ count + 1 < obs.horizon)
          ~> (pc = "submit" \/ Interrupted)

\* the cycle after one in which a's task raised and b's succeeded is under way
C14_Witness ==
    \E a, b \in Listed :
        /\ a # b
        /\ pc = "submit" /\ count = 2
        /\ futures[a].exception # "none"
        /\ obs.failed[a] = 2
        /\ obs.succeeded[b] = 2
        /\ stdout[b] = Some(<<50, 50, 2>>)

\* once the interrupt has been raised no cycle starts, no probe is launched and
\* no row is printed
C15_NothingAfterInterrupt ==
    Interrupted =>
        /\ Interrupted'
        /\ obs.fanouts' = obs.fanouts /\ obs.launched' = obs.launched
        /\ obs.reports' = obs.reports /\ count' = count
        /\ stdout' = stdout /\ regions' = regions

\* the process ends only with no probe in flight, and an interrupted run ends
\* in the except clause with exit status 0
C15_CleanEnd ==
    /\ pc \in {"done", "stopped"} =>
          /\ \A r \in Regions : ~InFlight(r)
          /\ proc.exit_status = Some(0)
    /\ pc = "stopped" => proc.diagnostics = 1
    /\ pc \notin {"done", "stopped"} => proc.exit_status = None

\* C15: an interrupt at the inter-cycle sleep or the dispatch boundary stops the
\* loop: no further cycle is started and no further row is printed; an
\* interrupt while probes are in flight does not hang the process: once the
\* probes in flight complete it terminates; in both cases termination is clean.
C15_InterruptStopsCleanly ==
    /\ []C15_CleanEnd
    /\ [][C15_NothingAfterInterrupt]_vars
    /\ Interrupted ~> (pc = "stopped")

\* the interrupt has been raised while one probe runs and another is queued
C15_Witness ==
    /\ pc = "exit_with_interrupt"
    /\ count = 1
    /\ \E a, b \in Listed : futures[a].state = "running" /\ futures[b].state = "queued"

\* no selected region: the directory is empty, or regions were asked for and
\* none of them is in it
FilteredEmpty ==
    \A k \in 1..Len(proc.directory) :
        args.regions # {} /\ proc.directory[k] \notin args.regions

FatalStartup ==
    \/ proc.fetch \in FetchFailureKinds
    \/ proc.fetch = "ok" /\ pc # "select" /\ FilteredEmpty

\* C16: if the directory fetch fails (non-200 status, transport error,
\* malformed JSON) or the filtered endpoint set is empty, the failure is
\* reported once on the error channel, the process exits with non-zero status,
\* no Endpoint is constructed, no probe is ever launched and no header or
\* report row is printed.
C16_FatalStartup ==
    FatalStartup =>
        /\ pc \in {"exited", "crashed"}
        /\ proc.exit_status # None /\ proc.exit_status[1] # 0
        /\ proc.diagnostics = 1 /\ stderr = {}
        /\ regions = <<>>
        /\ \A r \in Regions :
              /\ obs.launched[r] = 0 /\ futures[r] = NoFuture
              /\ measurements[r] = <<>> /\ stdout[r] = None
        /\ ~proc.header /\ ~proc.listed

\* a directory that does not hold the region asked for
C16_Witness ==
    /\ proc.fetch = "ok" /\ proc.directory = <<"r1">> /\ args.regions = {"r2"}
    /\ FilteredEmpty
    /\ pc = "exited"

IsPrefix(s, t) ==
    /\ Len(s) <= Len(t)
    /\ \A k \in 1..Len(s) : t[k] = s[k]

\* every step keeps each stored sample at its value and position
C17_HistoryKept ==
    \A r \in Regions : IsPrefix(measurements[r], measurements'[r])

\* a step that adds no sample leaves the history as it is, and a call of
\* winsorize leaves the list it was given as it is
C17_InputKept ==
    /\ \A r \in Regions :
          obs.succeeded'[r] = obs.succeeded[r] => measurements'[r] = measurements[r]
    /\ call.l' = call.l

\* C17: an Endpoint's stored history is append-only: every stored sample keeps
\* its value and position across probes and average computations; computing
\* the average (winsorize) changes a local copy only and leaves the stored
\* history and the caller's input sequence unchanged.
C17_AppendOnly == [][C17_HistoryKept /\ C17_InputKept]_vars

\* the average was computed from a clamped copy, and the outlier is still stored
C17_Witness ==
    \E r \in Listed :
        /\ Len(measurements[r]) >= 10
        /\ winsorize(measurements[r], WINSORIZED_MEAN_LOWER_LIMIT,
                     WINSORIZED_MEAN_UPPER_LIMIT) # measurements[r]
        /\ measurements[r][1] = 50 * NS_PER_MS
        /\ average_rtt_ns[r] = Some((3 * NS_PER_MS) \div 2)

\* the tasks of r that were submitted and have not returned
Outstanding(r) == obs.launched[r] - obs.succeeded[r] - obs.failed[r]

\* at most one probe task per Endpoint is in flight
C18_OneTask ==
    \A r \in Regions :
        /\ Outstanding(r) \in {0, 1}
        /\ Outstanding(r) = 1 <=> InFlight(r)

\* an Endpoint's history and cached average are written only by a step of its
\* own running task, which writes nothing of another Endpoint and is no step
\* of the main thread
C18_OwnWrites ==
    \A r \in Regions :
        (measurements'[r] # measurements[r] \/ average_rtt_ns'[r] # average_rtt_ns[r]) =>
            /\ futures[r].state = "running" /\ futures'[r].state = "finished"
            /\ pc' = pc /\ i' = i /\ regions' = regions
            /\ \A q \in Regions \ {r} :
                  /\ measurements'[q] = measurements[q]
                  /\ average_rtt_ns'[q] = average_rtt_ns[q]
                  /\ futures'[q] = futures[q]

\* the main thread reads the statistics in the sort (the step from wait to the
\* rows) and in each row; no task is in flight then
C18_QuiescentReads ==
    /\ (pc = "wait" /\ pc' = "print") => \A r \in Listed : ~InFlight(r)
    /\ (pc = "print" /\ stdout' # stdout) => \A r \in Listed : ~InFlight(r)
    /\ pc = "print" => ~InFlight(regions[i])

\* C18: in every interleaving of the worker tasks and the main thread, at most
\* one probe task per Endpoint is in flight, an Endpoint's history and cached
\* average are written only by that Endpoint's own probe task, and the main
\* thread reads an Endpoint's statistics (sorting, reporting) only when no
\* probe task of that Endpoint is in flight.
C18_ExclusiveOwnership ==
    [][C18_OneTask /\ C18_OneTask' /\ C18_OwnWrites /\ C18_QuiescentReads]_vars

\* the main thread waits while one task has written its Endpoint's second
\* sample and the other Endpoint's task is still running
C18_Witness ==
    /\ pc = "wait"
    /\ futures["r1"].state = "running"
    /\ futures["r2"].state = "finished"
    /\ Len(measurements["r2"]) >= 2
    /\ Len(measurements["r1"]) >= 1

Elements(s) == {s[k] : k \in 1..Len(s)}

Min(S) == CHOOSE x \in S : \A y \in S : x <= y

Max(S) == CHOOSE x \in S : \A y \in S : x >= y

\* C19: for every non-empty input and every pair of fractions in [0,1], every
\* element of winsorize's output is a value that occurs in the input and lies
\* between the input's minimum and maximum; so an Endpoint's average, when not
\* -1, lies between the floor of its smallest and of its largest successful
\* sample, in milliseconds.
C19_WithinInputRange ==
    /\ (call.ret # None /\ Len(call.l) >= 1) =>
          \A j \in 1..Len(call.ret[1]) :
              /\ call.ret[1][j] \in Elements(call.l)
              /\ Min(Elements(call.l)) <= call.ret[1][j]
              /\ call.ret[1][j] <= Max(Elements(call.l))
    /\ \A r \in Regions :
          (average_rtt_ms(r) # -1 \/ measurements[r] # <<>>) =>
              /\ measurements[r] # <<>>
              /\ Min(Elements(measurements[r])) \div NS_PER_MS <= average_rtt_ms(r)
              /\ average_rtt_ms(r) <= Max(Elements(measurements[r])) \div NS_PER_MS

\* a history of two different latencies whose highest sample is clamped in the
\* copy: the average is the floor of the smallest sample, below the largest
C19_Witness ==
    \E r \in Listed :
        /\ Len(measurements[r]) >= 10
        /\ winsorize(measurements[r], WINSORIZED_MEAN_LOWER_LIMIT,
                     WINSORIZED_MEAN_UPPER_LIMIT) # measurements[r]
        /\ Min(Elements(measurements[r])) < Max(Elements(measurements[r]))
        /\ average_rtt_ms(r) = Min(Elements(measurements[r])) \div NS_PER_MS
        /\ average_rtt_ms(r) < Max(Elements(measurements[r])) \div NS_PER_MS

OwnLimits ==
    /\ call.lower_limit = WINSORIZED_MEAN_LOWER_LIMIT
    /\ call.upper_limit = WINSORIZED_MEAN_UPPER_LIMIT

\* C20: with the fixed tail fractions (lower 0.05, upper 0.10) nothing is
\* clamped while an Endpoint has fewer than 10 successful samples, so for
\* n < 10 the average is the plain floor mean of all successful samples; the
\* upper tail is first clamped at n = 10 and the lower tail at n = 20.
C20_TailsStartAtTenAndTwenty ==
    /\ \A r \in Regions :
          (Len(measurements[r]) >= 1 /\ Len(measurements[r]) < 10) =>
              average_rtt_ms(r) =
                  Sum(measurements[r]) \div (Len(measurements[r]) * NS_PER_MS)
    /\ (call.ret # None /\ OwnLimits /\ Len(call.l) >= 1) =>
          LET n == Len(call.l)
          IN  /\ n < 10 => call.ret[1] = call.l
              /\ call.ret[1] = Reference(call.l, n \div 20, n \div 10)
              /\ (call.l \in TailLists /\ {1, 9} \subseteq Elements(call.l)) =>
                    /\ 9 \in Elements(call.ret[1]) <=> n < 10
                    /\ 1 \in Elements(call.ret[1]) <=> n < 20

\* twenty samples, the lowest first and the highest last, both clamped
C20_Witness ==
    /\ Len(call.l) = 20 /\ call.l[1] = 1 /\ call.l[20] = 9
    /\ OwnLimits
    /\ call.ret = Some([k \in 1..20 |-> 5])

====
